---- MODULE Spec2Model ----
(***************************************************************************)
(* Merkle tree construction, proof generation and proof verification of    *)
(* contract_verifier.py, with the script's two contract versions (V1, V2)  *)
(* as the state.                                                           *)
(*                                                                         *)
(* Strings are sequences of symbols, '+' on strings is \o.  A digest is a  *)
(* string over the symbols 0..NumAtoms: <<k>> (k >= 1) stands for the      *)
(* digest of a clause text, and the digest of any other string s is        *)
(* <<0>> \o s.  Digests of this form are a prefix code, so the             *)
(* concatenation of two digests determines both (as the concatenation of   *)
(* two 64-character digests does) and hash_data is collision-free.         *)
(***************************************************************************)
EXTENDS Integers, Sequences, FiniteSets, TLC

VARIABLES hashes_v1, hashes_v2, tree_v1, tree_v2, root_v1, root_v2,
          clause_index_to_prove,
          target_hash_v1, proof_v1, is_verified_v1, is_verified_against_v2,
          target_hash_v2, proof_v2, is_verified_v2, is_verified_against_v1,
          pc

vars == <<hashes_v1, hashes_v2, tree_v1, tree_v2, root_v1, root_v2,
          clause_index_to_prove,
          target_hash_v1, proof_v1, is_verified_v1, is_verified_against_v2,
          target_hash_v2, proof_v2, is_verified_v2, is_verified_against_v1,
          pc>>

---------------------------------------------------------------------------
(* Bounds *)

\* number of distinct clause texts under Spec and SpecDeep
NumAtoms == 2
\* longest leaf sequence of each version under Spec
MaxLeaves == 4
\* longest leaf sequence of V1 under SpecDeep
MaxDeepLeaves == 6
\* number of distinct clause texts under SpecChange
NumChangeAtoms == 5
\* longest leaf sequence under SpecChange
MaxChangeLeaves == 5

---------------------------------------------------------------------------
(* Strings and digests *)

\* hashlib.sha256(data).hexdigest(), collision-free
hash_data(data) == <<0>> \o data

\* hash_data(clause) of the k-th distinct clause text
ClauseDigest(k) == <<k>>

\* the value get_merkle_root returns for an empty tree
EMPTY_CONTRACT == <<-1>>

Last(s) == s[Len(s)]

Range(s) == {s[i] : i \in 1..Len(s)}

SeqsUpTo(S, n) == UNION {[1..k -> S] : k \in 0..n}

---------------------------------------------------------------------------
(* build_merkle_tree *)

\* RightChild with the right child never read: right_child = level[i]
RightChild_AlwaysLeft(level, i) == level[i]

\* RightChild without the duplication: an unpaired node is hashed alone
RightChild_NoDuplicate(level, i) ==
    IF i + 1 <= Len(level) THEN level[i + 1] ELSE <<>>

\* line 23: the right child of the pair whose left child is level[i]
RightChild(level, i) == IF i + 1 <= Len(level) THEN level[i + 1] ELSE level[i]

\* lexicographic order on strings
RECURSIVE LexLeq(_, _)
LexLeq(a, b) ==
    IF a = <<>> THEN TRUE
    ELSE IF b = <<>> THEN FALSE
    ELSE IF a[1] # b[1] THEN a[1] < b[1]
    ELSE LexLeq(Tail(a), Tail(b))

\* NextLevel hashing each pair in sorted order
NextLevel_SortedPair(level) ==
    [p \in 1..((Len(level) + 1) \div 2) |->
        LET l == level[2 * p - 1]
            r == IF 2 * p <= Len(level) THEN level[2 * p] ELSE level[2 * p - 1]
        IN  hash_data(IF LexLeq(l, r) THEN l \o r ELSE r \o l)]

\* NextLevel over range(0, len(level) - 1, 2): an unpaired last node is dropped
NextLevel_DropUnpaired(level) ==
    [p \in 1..(IF Len(level) = 1 THEN 1 ELSE Len(level) \div 2) |->
        hash_data(level[2 * p - 1]
                    \o (IF 2 * p <= Len(level) THEN level[2 * p] ELSE level[2 * p - 1]))]

\* lines 17-27, one pass of the for loop: the parents of a level, pair by pair
NextLevel(level) ==
    [p \in 1..((Len(level) + 1) \div 2) |->
        hash_data(level[2 * p - 1] \o RightChild(level, 2 * p - 1))]

\* get_merkle_root with the empty string for the empty tree
get_merkle_root_EmptyString(tree) ==
    IF tree # <<>> /\ Last(tree) # <<>> THEN Last(tree)[1] ELSE <<>>

\* get_merkle_root
get_merkle_root(tree) ==
    IF tree # <<>> /\ Last(tree) # <<>> THEN Last(tree)[1] ELSE EMPTY_CONTRACT

---------------------------------------------------------------------------
(* get_merkle_proof *)

\* line 95: the right node of the pair whose left node is level[i]
RightNode(level, i) == IF i + 1 <= Len(level) THEN level[i + 1] ELSE level[i]

\* FirstPair with found_in_level never reset: a failed search counts as a hit
\* on the first pair
FirstPair_AlwaysFound(level, current_hash_up) ==
    LET hits == {i \in 1..Len(level) :
                    /\ i % 2 = 1
                    /\ \/ current_hash_up = level[i]
                       \/ current_hash_up = RightNode(level, i)}
    IN  IF hits = {} THEN 1 ELSE CHOOSE i \in hits : \A j \in hits : i <= j

\* lines 92-112: the left index of the first pair of the level that holds
\* current_hash_up, 0 if the loop ends without a break
FirstPair(level, current_hash_up) ==
    LET hits == {i \in 1..Len(level) :
                    /\ i % 2 = 1
                    /\ \/ current_hash_up = level[i]
                       \/ current_hash_up = RightNode(level, i)}
    IN  IF hits = {} THEN 0 ELSE CHOOSE i \in hits : \A j \in hits : i <= j

\* ProofStep appending the parent of the pair instead of the sibling
ProofStep_Parent(level, i, current_hash_up) ==
    IF current_hash_up = level[i]
    THEN <<hash_data(level[i] \o RightNode(level, i)), "right">>
    ELSE <<hash_data(level[i] \o RightNode(level, i)), "left">>

\* lines 97-108: the step appended for the pair at i, the left node tested first
ProofStep(level, i, current_hash_up) ==
    IF current_hash_up = level[i] THEN <<RightNode(level, i), "right">>
    ELSE <<level[i], "left">>

\* ProofFrom over range(len(tree)): the root level is scanned too
RECURSIVE ProofFrom_RootLevel(_, _, _, _)
ProofFrom_RootLevel(tree, level_index, current_hash_up, proof_revised) ==
    IF level_index > Len(tree) THEN proof_revised
    ELSE LET level == tree[level_index]
             i == FirstPair(level, current_hash_up)
         IN  IF i = 0 THEN <<>>
             ELSE ProofFrom_RootLevel(tree, level_index + 1,
                            hash_data(level[i] \o RightNode(level, i)),
                            Append(proof_revised,
                                   ProofStep(level, i, current_hash_up)))

\* ProofFrom without the return of lines 114-118: a level that does not hold
\* current_hash_up is passed over
RECURSIVE ProofFrom_NoReturn(_, _, _, _)
ProofFrom_NoReturn(tree, level_index, current_hash_up, proof_revised) ==
    IF level_index > Len(tree) - 1 THEN proof_revised
    ELSE LET level == tree[level_index]
             i == FirstPair(level, current_hash_up)
         IN  IF i = 0
             THEN ProofFrom_NoReturn(tree, level_index + 1, current_hash_up,
                                     proof_revised)
             ELSE ProofFrom_NoReturn(tree, level_index + 1,
                            hash_data(level[i] \o RightNode(level, i)),
                            Append(proof_revised,
                                   ProofStep(level, i, current_hash_up)))

\* lines 89-118: the loop over the levels below the root, from level_index on
RECURSIVE ProofFrom(_, _, _, _)
ProofFrom(tree, level_index, current_hash_up, proof_revised) ==
    IF level_index > Len(tree) - 1 THEN proof_revised
    ELSE LET level == tree[level_index]
             i == FirstPair(level, current_hash_up)
         IN  IF i = 0 THEN <<>>
             ELSE ProofFrom(tree, level_index + 1,
                            hash_data(level[i] \o RightNode(level, i)),
                            Append(proof_revised,
                                   ProofStep(level, i, current_hash_up)))

get_merkle_proof(tree, target_hash) ==
    IF tree = <<>> \/ tree[1] = <<>> THEN <<>>
    ELSE ProofFrom(tree, 1, target_hash, <<>>)

---------------------------------------------------------------------------
(* verify_merkle_proof *)

\* Combine with the two sides mistaken for each other
Combine_SidesSwapped(step, computed_hash) ==
    IF step[2] = "left" THEN hash_data(computed_hash \o step[1])
    ELSE hash_data(step[1] \o computed_hash)

\* lines 132-139: computed_hash after one proof step with a valid side
Combine(step, computed_hash) ==
    IF step[2] = "left" THEN hash_data(step[1] \o computed_hash)
    ELSE hash_data(computed_hash \o step[1])

\* lines 131-146: the loop over the proof steps from step k on
RECURSIVE VerifyFrom(_, _, _, _)
VerifyFrom(proof, k, computed_hash, merkle_root) ==
    IF k > Len(proof) THEN computed_hash = merkle_root
    ELSE IF proof[k][2] \notin {"left", "right"} THEN FALSE
    ELSE VerifyFrom(proof, k + 1, Combine(proof[k], computed_hash), merkle_root)

verify_merkle_proof(proof, target_hash, merkle_root) ==
    VerifyFrom(proof, 1, target_hash, merkle_root)

---------------------------------------------------------------------------
(* The inputs *)

\* the digests of n distinct clause texts
ClauseDigests(n) == {ClauseDigest(k) : k \in 1..n}

\* the digest of a clause whose text is the concatenation of two digests
CompoundDigest == hash_data(ClauseDigest(1) \o ClauseDigest(2))

\* every digest held by some level of a tree
Nodes(tree) == UNION {Range(tree[k]) : k \in 1..Len(tree)}

\* digests that are no clause of V1: the other clause digests, the nodes of
\* both trees above the leaves, and the value returned for the empty tree
ForeignDigests ==
    (  ClauseDigests(NumAtoms) \cup {CompoundDigest} \cup Nodes(tree_v1)
       \cup Nodes(tree_v2) \cup {EMPTY_CONTRACT}) \ Range(hashes_v1)

TypeInit ==
    /\ tree_v1 = <<>>
    /\ tree_v2 = <<>>
    /\ root_v1 = <<>>
    /\ root_v2 = <<>>
    /\ clause_index_to_prove = -1
    /\ target_hash_v1 = <<>>
    /\ proof_v1 = <<>>
    /\ is_verified_v1 = FALSE
    /\ is_verified_against_v2 = FALSE
    /\ target_hash_v2 = <<>>
    /\ proof_v2 = <<>>
    /\ is_verified_v2 = FALSE
    /\ is_verified_against_v1 = FALSE
    /\ pc = "build_v1"

\* lines 199-200: any two versions of a contract
Init ==
    /\ hashes_v1 \in SeqsUpTo(ClauseDigests(NumAtoms), MaxLeaves)
    /\ hashes_v2 \in SeqsUpTo(ClauseDigests(NumAtoms), MaxLeaves)
    /\ TypeInit

\* lines 199-202: a longer V1 that may hold a compound digest, and a V2 that
\* is identical (contract_v3_identical_v1) or has one more clause at the end
\* (contract_v4_different_clause_count)
InitDeep ==
    /\ hashes_v1 \in SeqsUpTo(ClauseDigests(NumAtoms) \cup {CompoundDigest},
                              MaxDeepLeaves)
    /\ hashes_v2 \in {hashes_v1} \cup
          {Append(hashes_v1, d) : d \in ClauseDigests(NumAtoms) \cup {CompoundDigest}}
    /\ TypeInit

\* s with the element at position j replaced by d
ReplaceAt(s, j, d) == [s EXCEPT ![j] = d]

IsInjective(s) == \A i, j \in 1..Len(s) : s[i] = s[j] => i = j

\* lines 165-175: a V1 of pairwise distinct clauses, and a V2 that differs
\* from it in one clause, whose new text occurs nowhere in V1
InitChange ==
    /\ hashes_v1 \in SeqsUpTo(ClauseDigests(NumChangeAtoms) \cup {CompoundDigest},
                              MaxChangeLeaves)
    /\ IsInjective(hashes_v1)
    /\ \E j \in 1..Len(hashes_v1) :
          \E d \in (ClauseDigests(NumChangeAtoms) \cup {CompoundDigest})
                      \ Range(hashes_v1) :
             hashes_v2 = ReplaceAt(hashes_v1, j, d)
    /\ TypeInit

---------------------------------------------------------------------------
(* The script, lines 205-285 *)

\* line 205, build_merkle_tree lines 11-15 up to the first loop test
BuildInitV1 ==
    /\ pc = "build_v1"
    /\ tree_v1' = IF hashes_v1 = <<>> THEN <<>> ELSE <<hashes_v1>>
    /\ pc' = IF Len(hashes_v1) > 1 THEN "loop_v1" ELSE "build_v2"
    /\ UNCHANGED <<hashes_v1, hashes_v2, tree_v2, root_v1, root_v2,
                   clause_index_to_prove, target_hash_v1, proof_v1,
                   is_verified_v1, is_verified_against_v2, target_hash_v2,
                   proof_v2, is_verified_v2, is_verified_against_v1>>

\* build_merkle_tree lines 15-29: one iteration of the while loop, and the
\* return when the next test fails
BuildLevelV1 ==
    /\ pc = "loop_v1"
    /\ Len(Last(tree_v1)) > 1
    /\ tree_v1' = Append(tree_v1, NextLevel(Last(tree_v1)))
    /\ pc' = IF Len(Last(tree_v1')) > 1 THEN "loop_v1" ELSE "build_v2"
    /\ UNCHANGED <<hashes_v1, hashes_v2, tree_v2, root_v1, root_v2,
                   clause_index_to_prove, target_hash_v1, proof_v1,
                   is_verified_v1, is_verified_against_v2, target_hash_v2,
                   proof_v2, is_verified_v2, is_verified_against_v1>>

\* line 206
BuildInitV2 ==
    /\ pc = "build_v2"
    /\ tree_v2' = IF hashes_v2 = <<>> THEN <<>> ELSE <<hashes_v2>>
    /\ pc' = IF Len(hashes_v2) > 1 THEN "loop_v2" ELSE "roots"
    /\ UNCHANGED <<hashes_v1, hashes_v2, tree_v1, root_v1, root_v2,
                   clause_index_to_prove, target_hash_v1, proof_v1,
                   is_verified_v1, is_verified_against_v2, target_hash_v2,
                   proof_v2, is_verified_v2, is_verified_against_v1>>

BuildLevelV2 ==
    /\ pc = "loop_v2"
    /\ Len(Last(tree_v2)) > 1
    /\ tree_v2' = Append(tree_v2, NextLevel(Last(tree_v2)))
    /\ pc' = IF Len(Last(tree_v2')) > 1 THEN "loop_v2" ELSE "roots"
    /\ UNCHANGED <<hashes_v1, hashes_v2, tree_v1, root_v1, root_v2,
                   clause_index_to_prove, target_hash_v1, proof_v1,
                   is_verified_v1, is_verified_against_v2, target_hash_v2,
                   proof_v2, is_verified_v2, is_verified_against_v1>>

\* lines 212-213
GetRoots ==
    /\ pc = "roots"
    /\ root_v1' = get_merkle_root(tree_v1)
    /\ root_v2' = get_merkle_root(tree_v2)
    /\ pc' = "demo_v1"
    /\ UNCHANGED <<hashes_v1, hashes_v2, tree_v1, tree_v2,
                   clause_index_to_prove, target_hash_v1, proof_v1,
                   is_verified_v1, is_verified_against_v2, target_hash_v2,
                   proof_v2, is_verified_v2, is_verified_against_v1>>

\* lines 252-260: the proof of a digest in V1, verified against both roots
DemoV1(target) ==
    /\ target_hash_v1' = target
    /\ proof_v1' = get_merkle_proof(tree_v1, target)
    /\ is_verified_v1' = verify_merkle_proof(proof_v1', target, root_v1)
    /\ is_verified_against_v2' = verify_merkle_proof(proof_v1', target, root_v2)
    /\ pc' = "demo_v2"
    /\ UNCHANGED <<hashes_v1, hashes_v2, tree_v1, tree_v2, root_v1, root_v2,
                   target_hash_v2, proof_v2, is_verified_v2,
                   is_verified_against_v1>>

\* lines 246-261, for any clause index in range (0-based, as in the script)
ProofDemoV1 ==
    /\ pc = "demo_v1"
    /\ \E i \in 0..(Len(hashes_v1) - 1) :
          /\ clause_index_to_prove' = i
          /\ DemoV1(hashes_v1[i + 1])

\* get_merkle_proof and verify_merkle_proof called with a digest that is
\* no clause of V1
ProofOfForeignDigest ==
    /\ pc = "demo_v1"
    /\ \E t \in ForeignDigests :
          /\ clause_index_to_prove' = -1
          /\ DemoV1(t)

\* lines 268-281
ProofDemoV2 ==
    /\ pc = "demo_v2"
    /\ clause_index_to_prove \in 0..(Len(hashes_v2) - 1)
    /\ target_hash_v2' = hashes_v2[clause_index_to_prove + 1]
    /\ proof_v2' = get_merkle_proof(tree_v2, target_hash_v2')
    /\ is_verified_v2' = verify_merkle_proof(proof_v2', target_hash_v2', root_v2)
    /\ is_verified_against_v1' = verify_merkle_proof(proof_v2', target_hash_v2', root_v1)
    /\ pc' = "done"
    /\ UNCHANGED <<hashes_v1, hashes_v2, tree_v1, tree_v2, root_v1, root_v2,
                   clause_index_to_prove, target_hash_v1, proof_v1,
                   is_verified_v1, is_verified_against_v2>>

\* lines 284-285: V2 has no clause at the index
SkipDemoV2 ==
    /\ pc = "demo_v2"
    /\ clause_index_to_prove \notin 0..(Len(hashes_v2) - 1)
    /\ pc' = "done"
    /\ UNCHANGED <<hashes_v1, hashes_v2, tree_v1, tree_v2, root_v1, root_v2,
                   clause_index_to_prove, target_hash_v1, proof_v1,
                   is_verified_v1, is_verified_against_v2, target_hash_v2,
                   proof_v2, is_verified_v2, is_verified_against_v1>>

Next ==
    \/ BuildInitV1
    \/ BuildLevelV1
    \/ BuildInitV2
    \/ BuildLevelV2
    \/ GetRoots
    \/ ProofDemoV1
    \/ ProofOfForeignDigest
    \/ ProofDemoV2
    \/ SkipDemoV2

Spec == Init /\ [][Next]_vars

SpecDeep == InitDeep /\ [][Next]_vars

SpecChange == InitChange /\ [][Next]_vars

---------------------------------------------------------------------------
(* Positions of the script *)

\* tree_v1 is built
BuiltV1 == pc \notin {"build_v1", "loop_v1"}

\* both trees are built
Built == pc \in {"roots", "demo_v1", "demo_v2", "done"}

\* both roots are read
Rooted == pc \in {"demo_v1", "demo_v2", "done"}

\* the proof for target_hash_v1 is generated and verified
DemoV1Done == pc \in {"demo_v2", "done"}

\* target_hash_v1 was taken from hashes_v1 by index
ClauseProved == DemoV1Done /\ clause_index_to_prove >= 0

\* the proof for target_hash_v2 is generated and verified
DemoV2Done == pc = "done" /\ clause_index_to_prove \in 0..(Len(hashes_v2) - 1)

---------------------------------------------------------------------------
(* C1 *)

\* C1: round trip. The proof generated for the leaf at any index of a
\* non-empty leaf sequence (duplicates allowed, any length) verifies against
\* the root of the tree built from that sequence.
C1_RoundTrip ==
    /\ ClauseProved => is_verified_v1
    /\ DemoV2Done => is_verified_v2

\* a proof of three steps with both sides in it, for a leaf that occurs
\* twice, has verified
C1_Witness ==
    /\ ClauseProved
    /\ is_verified_v1
    /\ Len(proof_v1) = 3
    /\ \E a, b \in 1..3 : proof_v1[a][2] = "left" /\ proof_v1[b][2] = "right"
    /\ \E i, j \in 1..Len(hashes_v1) :
          i # j /\ hashes_v1[i] = target_hash_v1 /\ hashes_v1[j] = target_hash_v1

---------------------------------------------------------------------------
(* C2 *)

\* C2 as stated: the proof of a leaf of V1 fails against the root of any
\* non-empty V2 that differs from V1 in a leaf or in the number of leaves.
C2_NonTransferable_Original ==
    (ClauseProved /\ hashes_v2 # <<>> /\ hashes_v1 # hashes_v2)
        => ~is_verified_against_v2

\* C2 amended: the proof of a leaf of V1 fails against the root of any V2
\* that has as many leaves as V1 and differs from it at some position.
C2_NonTransferable_SameLength ==
    /\ (ClauseProved /\ Len(hashes_v2) = Len(hashes_v1) /\ hashes_v1 # hashes_v2)
          => ~is_verified_against_v2
    /\ (DemoV2Done /\ Len(hashes_v2) = Len(hashes_v1) /\ hashes_v1 # hashes_v2)
          => ~is_verified_against_v1

\* a two-step proof of a leaf of V1 was refused against the root of a V2 of
\* the same length that differs in a leaf the proof does not name
C2_Witness ==
    /\ ClauseProved
    /\ Len(proof_v1) = 2
    /\ Len(hashes_v2) = Len(hashes_v1)
    /\ hashes_v1 # hashes_v2
    /\ hashes_v2[clause_index_to_prove + 1] = target_hash_v1
    /\ is_verified_v1
    /\ ~is_verified_against_v2

---------------------------------------------------------------------------
(* C3 *)

\* C3: not found. For a target that is no element of level 0 of the tree
\* (every target, when the tree is empty) the proof is empty, whatever the
\* number of levels.
C3_NotFoundEmptyProof ==
    (DemoV1Done /\ target_hash_v1 \notin Range(hashes_v1)) => proof_v1 = <<>>

\* the empty proof was returned for a digest that a tree of four levels
\* holds above level 0
C3_Witness ==
    /\ DemoV1Done
    /\ Len(tree_v1) = 4
    /\ target_hash_v1 \notin Range(hashes_v1)
    /\ target_hash_v1 \in Range(tree_v1[2])
    /\ proof_v1 = <<>>

---------------------------------------------------------------------------
(* C4 *)

\* the sibling of position p of a level, as a proof step: the right
\* neighbour of an odd position (the node itself when it is unpaired), the
\* left neighbour of an even one
SiblingStep(level, p) ==
    IF p % 2 = 1
    THEN <<(IF p + 1 <= Len(level) THEN level[p + 1] ELSE level[p]), "right">>
    ELSE <<level[p - 1], "left">>

\* steps k.. of proof are the siblings of a path of tree that holds node at
\* level k and climbs to the root
RECURSIVE IsSiblingPath(_, _, _, _)
IsSiblingPath(tree, proof, k, node) ==
    IF k > Len(tree) - 1 THEN tree[k] = <<node>>
    ELSE \E p \in 1..Len(tree[k]) :
            /\ tree[k][p] = node
            /\ proof[k] = SiblingStep(tree[k], p)
            /\ IsSiblingPath(tree, proof, k + 1, tree[k + 1][(p + 1) \div 2])

\* C4: proof length and order. The proof of a target that occurs at level 0
\* has len(tree) - 1 steps, and step k is the sibling of the path node at
\* level k, from the leaf upward; the search fails at no level.
C4_ProofLengthOrder ==
    /\ ClauseProved =>
          /\ Len(proof_v1) = Len(tree_v1) - 1
          /\ IsSiblingPath(tree_v1, proof_v1, 1, target_hash_v1)
    /\ DemoV2Done =>
          /\ Len(proof_v2) = Len(tree_v2) - 1
          /\ IsSiblingPath(tree_v2, proof_v2, 1, target_hash_v2)

\* a proof of three steps was generated in a tree of four levels whose level
\* 1 has odd size, for its unpaired last leaf
C4_Witness ==
    /\ ClauseProved
    /\ Len(tree_v1) = 4
    /\ Len(hashes_v1) = 5
    /\ clause_index_to_prove = 4
    /\ Len(proof_v1) = 3
    /\ proof_v1[1] = <<target_hash_v1, "right">>

\* the single-leaf tree gave the empty proof
C4_WitnessSingleLeaf ==
    ClauseProved /\ Len(hashes_v1) = 1 /\ proof_v1 = <<>>

---------------------------------------------------------------------------
(* C5 *)

\* the levels of tree, from leaves to root, halve (rounding up) down to one
HasTreeShape(tree, leaf_hashes) ==
    IF leaf_hashes = <<>> THEN tree = <<>>
    ELSE /\ tree # <<>>
         /\ tree[1] = leaf_hashes
         /\ \A k \in 1..(Len(tree) - 1) :
               Len(tree[k + 1]) * 2 \in {Len(tree[k]), Len(tree[k]) + 1}
         /\ Len(Last(tree)) = 1

\* every iteration of the while loop of build_merkle_tree makes the last
\* level shorter
LoopShrinks ==
    /\ pc = "loop_v1" => Len(Last(tree_v1')) < Len(Last(tree_v1))
    /\ pc = "loop_v2" => Len(Last(tree_v2')) < Len(Last(tree_v2))

\* C5: tree shape. The built tree has the input as level 0, each next level
\* has ceil(len / 2) digests, the last level has one digest, and the tree of
\* the empty sequence has no levels; the loop ends because every iteration
\* shortens the last level, which has at least one digest.
C5_TreeShape ==
    /\ [](BuiltV1 => HasTreeShape(tree_v1, hashes_v1))
    /\ [](Built => HasTreeShape(tree_v2, hashes_v2))
    /\ [](pc = "loop_v1" => Len(Last(tree_v1)) > 1)
    /\ [](pc = "loop_v2" => Len(Last(tree_v2)) > 1)
    /\ [][LoopShrinks]_vars

\* a tree of four levels with an odd level above the leaves is built, from a
\* sequence that holds a digest twice
C5_Witness ==
    /\ BuiltV1
    /\ Len(tree_v1) = 4
    /\ Len(tree_v1[2]) = 3
    /\ hashes_v1[1] = hashes_v1[2]

---------------------------------------------------------------------------
(* C6 *)

\* every parent is the digest of its left child followed by its right
\* child, and the parent of an unpaired last node x is hash(x ++ x)
HasParents(tree) ==
    \A k \in 1..(Len(tree) - 1) :
        \A p \in 1..Len(tree[k + 1]) :
            tree[k + 1][p] =
                IF 2 * p <= Len(tree[k])
                THEN hash_data(tree[k][2 * p - 1] \o tree[k][2 * p])
                ELSE hash_data(tree[k][2 * p - 1] \o tree[k][2 * p - 1])

\* C6: odd-node duplication. At a level of odd size above 1 the last parent
\* is hash(x ++ x) for the last node x and every other parent is
\* hash(level[i] ++ level[i+1]); the root of [a, b, c] is
\* hash(hash(a + b) + hash(c + c)).
C6_OddNodeDuplication ==
    /\ BuiltV1 => HasParents(tree_v1)
    /\ Built => HasParents(tree_v2)
    /\ (Rooted /\ Len(hashes_v1) = 3) =>
          root_v1 = hash_data(hash_data(hashes_v1[1] \o hashes_v1[2])
                                \o hash_data(hashes_v1[3] \o hashes_v1[3]))

\* the root of three pairwise distinct leaves is read
C6_Witness ==
    /\ Rooted
    /\ Len(hashes_v1) = 3
    /\ hashes_v1[1] # hashes_v1[2]
    /\ hashes_v1[2] # hashes_v1[3]
    /\ hashes_v1[1] # hashes_v1[3]
    /\ root_v1 = get_merkle_root(tree_v1)

---------------------------------------------------------------------------
(* C7 *)

\* t holds the same digests as s, each as often
IsPermutation(s, t) ==
    /\ Len(s) = Len(t)
    /\ \A d \in Range(s) \cup Range(t) :
          Cardinality({i \in 1..Len(s) : s[i] = d})
              = Cardinality({i \in 1..Len(t) : t[i] = d})

\* C7: order sensitivity. A permutation of a leaf sequence that is a
\* different sequence has a different root.
C7_OrderSensitive ==
    (Rooted /\ IsPermutation(hashes_v1, hashes_v2) /\ hashes_v1 # hashes_v2)
        => root_v1 # root_v2

\* the roots of a four-leaf sequence and of a permutation of it that moves
\* a leaf from one pair to the other are read
C7_Witness ==
    /\ Rooted
    /\ Len(hashes_v1) = 4
    /\ IsPermutation(hashes_v1, hashes_v2)
    /\ {hashes_v1[1], hashes_v1[2]} # {hashes_v2[1], hashes_v2[2]}
    /\ root_v1 # root_v2

---------------------------------------------------------------------------
(* C8 *)

\* C8: empty input. The tree of the empty sequence has no levels, its root
\* is EMPTY_CONTRACT, which is the root of no non-empty sequence, and the
\* proof of any target in it is empty; two empty versions have equal roots.
C8_EmptyInput ==
    /\ (BuiltV1 /\ hashes_v1 = <<>>) => tree_v1 = <<>>
    /\ (Rooted /\ hashes_v1 = <<>>) => root_v1 = EMPTY_CONTRACT
    /\ (Rooted /\ hashes_v1 # <<>>) => root_v1 # EMPTY_CONTRACT
    /\ (Rooted /\ hashes_v1 = <<>> /\ hashes_v2 = <<>>) => root_v1 = root_v2
    /\ (DemoV1Done /\ hashes_v1 = <<>>) => proof_v1 = <<>>

\* a proof was asked of the empty tree of V1 for a digest that is the root
\* of V2
C8_Witness ==
    /\ DemoV1Done
    /\ hashes_v1 = <<>>
    /\ Len(hashes_v2) > 1
    /\ target_hash_v1 = root_v2
    /\ proof_v1 = <<>>

\* both versions are empty and their roots are read
C8_WitnessBothEmpty ==
    Rooted /\ hashes_v1 = <<>> /\ hashes_v2 = <<>> /\ root_v1 = root_v2

---------------------------------------------------------------------------
(* C9 *)

\* the position at which the two versions differ
ChangedPosition == CHOOSE j \in 1..Len(hashes_v1) : hashes_v1[j] # hashes_v2[j]

\* V2 is V1 with the clause at one position replaced by a digest that occurs
\* nowhere in V1, and the clauses of V1 are pairwise distinct
SingleLeafChange ==
    /\ IsInjective(hashes_v1)
    /\ Len(hashes_v2) = Len(hashes_v1)
    /\ \E j \in 1..Len(hashes_v1) :
          /\ hashes_v2[j] \notin Range(hashes_v1)
          /\ \A i \in 1..Len(hashes_v1) : i # j => hashes_v2[i] = hashes_v1[i]

RECURSIVE Pow2(_)
Pow2(k) == IF k = 0 THEN 1 ELSE 2 * Pow2(k - 1)

\* the 0-based position, at the level of step k (1-based), of the sibling
\* of the path node of the leaf at 0-based position i of a tree over n
\* leaves: the neighbour in the pair, or the node itself when it is the
\* unpaired last node of the level
SiblingPosition(n, i, k) ==
    LET p == i \div Pow2(k - 1)
        size == (n + Pow2(k - 1) - 1) \div Pow2(k - 1)
    IN  IF p % 2 = 1 THEN p - 1
        ELSE IF p + 1 < size THEN p + 1 ELSE p

\* the subtree of the node at 0-based position q of the level of step k
\* holds the leaf at 0-based position j
SubtreeHolds(q, k, j) == j \div Pow2(k - 1) = q

\* C9: a single-leaf change keeps the proof shape. When V2 is V1 with one
\* leaf replaced by a new digest (V1 pairwise distinct), the roots differ,
\* and the proofs of any other leaf in the two trees have the same number of
\* steps and the same sides, and differ in the sibling digest only at steps
\* whose sibling subtree holds the changed position.
C9_ProofShapePreserved ==
    /\ (Rooted /\ SingleLeafChange) => root_v1 # root_v2
    /\ (DemoV2Done /\ ClauseProved /\ SingleLeafChange
            /\ clause_index_to_prove + 1 # ChangedPosition) =>
          /\ Len(proof_v1) = Len(proof_v2)
          /\ Len(proof_v1) = Len(tree_v1) - 1
          /\ \A k \in 1..Len(proof_v1) :
                /\ proof_v1[k][2] = proof_v2[k][2]
                /\ proof_v1[k][1] # proof_v2[k][1] =>
                      SubtreeHolds(SiblingPosition(Len(hashes_v1),
                                                   clause_index_to_prove, k),
                                   k, ChangedPosition - 1)

\* [A, B, C] -> [A, B, D]: the proofs of A in both trees are generated, and
\* they differ in the top step only
C9_Witness ==
    /\ DemoV2Done
    /\ SingleLeafChange
    /\ Len(hashes_v1) = 3
    /\ ChangedPosition = 3
    /\ clause_index_to_prove = 0
    /\ Len(proof_v1) = 2
    /\ proof_v1[1] = proof_v2[1]
    /\ proof_v1[2] # proof_v2[2]

\* in a five-leaf tree, the proofs of the unpaired last leaf in both trees
\* are generated
C9_WitnessDeep ==
    /\ DemoV2Done
    /\ SingleLeafChange
    /\ Len(hashes_v1) = 5
    /\ clause_index_to_prove = 4
    /\ ChangedPosition = 2
    /\ Len(proof_v1) = 3
    /\ proof_v1[3] # proof_v2[3]

---------------------------------------------------------------------------
(* C10 *)

\* C10: what generate-then-verify accepts. For a non-empty V1 and any target,
\* the proof generated for the target verifies against the root of V1 exactly
\* when the target occurs at level 0 or is the root digest itself.
C10_AcceptanceSet ==
    (DemoV1Done /\ hashes_v1 # <<>>) =>
        (is_verified_v1 <=>
            (target_hash_v1 \in Range(hashes_v1) \/ target_hash_v1 = root_v1))

\* the root digest of a tree of several levels, no leaf of it, was accepted
\* through the empty proof
C10_Witness ==
    /\ DemoV1Done
    /\ Len(tree_v1) >= 3
    /\ target_hash_v1 = root_v1
    /\ target_hash_v1 \notin Range(hashes_v1)
    /\ proof_v1 = <<>>
    /\ is_verified_v1

\* a digest of the tree above the leaves and below the root was refused
C10_WitnessInternal ==
    /\ DemoV1Done
    /\ Len(tree_v1) >= 3
    /\ target_hash_v1 \in Range(tree_v1[2])
    /\ target_hash_v1 \notin Range(hashes_v1)
    /\ ~is_verified_v1

====
